---- MODULE Spec2Model ----
(***************************************************************************)
(* Model of calendar-mcp: the MCP tool handlers of server.py on top of     *)
(* CalendarManager (calendar_manager.py), which drives an EventKit store.  *)
(*                                                                         *)
(* Python values are modelled as follows.  An optional value is a sequence *)
(* of length at most one: <<>> is None (or a key missing from the params   *)
(* dict), <<v>> is the value v.  A datetime is a number of minutes since   *)
(* 2025-11-05T00:00.  A native calendar handle is its position in the      *)
(* store's enumeration, 0 standing for nil.  A native alarm is its         *)
(* relative offset in seconds.                                             *)
(***************************************************************************)
EXTENDS Integers, Sequences, FiniteSets, TLC

VARIABLES
    calendars,       \* store: titles of the calendars, in enumeration order
    defaultCalendar, \* store: handle of the default calendar for new events
    events,          \* store: identifier -> optional native event a lookup finds
    manager,         \* lru_cache of get_calendar_manager holds a CalendarManager
    pc,              \* position of the handler being served
    tool,            \* the tool being served (or served last)
    semaphore,       \* value of the Semaphore of _request_access
    access_granted,  \* the nonlocal access_granted of _request_access
    completion,      \* "none", "pending" (request issued), "done" (callback ran)
    mgr_error,       \* get_calendar_manager raised ValueError in this invocation
    ops,             \* store operations issued by the invocation, in order
    result,          \* what the invocation handed back to call_tool
    granted_ever,    \* an access request has completed with granted = TRUE
    denied_ever,     \* an access request has completed with granted = FALSE
    nmut             \* number of handler bodies that changed the store

vars == <<calendars, defaultCalendar, events, manager, pc, tool, semaphore,
          access_granted, completion, mgr_error, ops, result, granted_ever,
          denied_ever, nmut>>

(***************************************************************************)
(* Bounds of the model.                                                    *)
(***************************************************************************)
\* optional fields present in one create or update request
MaxFields == 2
\* handler bodies that change the store in one behaviour
MaxMutations == 1
\* events in the store of the listing specification
MaxListed == 3

(***************************************************************************)
(* Program constants.                                                      *)
(***************************************************************************)
MinutesPerDay == 1440
SecondsPerMinute == 60

(***************************************************************************)
(* Python helpers.                                                         *)
(***************************************************************************)
None == <<>>
Some(v) == <<v>>
IsNone(o) == Len(o) = 0
IsSome(o) == Len(o) = 1
Val(o) == o[1]

\* truth value of an optional string: None and "" are falsy
TruthyStr(o) == IsSome(o) /\ Val(o) # ""
\* truth value of an optional bool
TruthyBool(o) == IsSome(o) /\ Val(o)
\* truth value of an optional list
TruthySeq(o) == IsSome(o) /\ Len(Val(o)) > 0

Min(S) == CHOOSE x \in S : \A y \in S : x <= y

\* a raised exception: its class and its argument
Exc(cls, arg) == [cls |-> cls, arg |-> arg]

\* classes that derive from Exception (what "except Exception" catches)
ExceptionSubclasses ==
    {"Exception", "ValueError", "TypeError", "ValidationError",
     "NoSuchCalendarException", "NoSuchEventException"}

(***************************************************************************)
(* The store (EKEventStore) and its native values.                         *)
(***************************************************************************)
Nil == "nil"
EventIds == {"e1", "e2"}

EKSpanThisEvent == "EKSpanThisEvent"
EKSpanFutureEvents == "EKSpanFutureEvents"

\* one store operation, as the store sees it
Op(name, arg) == [op |-> name, arg |-> arg]

\* the calendar and event operations of the store (all but requestAccess)
StoreDataOps == {"calendars", "query", "lookup", "save", "remove", "defaultCalendar"}

\* EKEvent.eventWithEventStore_: a fresh native event
NewEKEvent ==
    [title |-> Nil, startDate |-> 0, endDate |-> 0, location |-> Nil,
     notes |-> Nil, url |-> Nil, allDay |-> FALSE, calendar |-> 0,
     recurrence |-> None, alarms |-> <<>>]

\* event_store.eventWithIdentifier_
eventWithIdentifier(id) == IF id \in DOMAIN events THEN events[id] ELSE None

\* the identifier the store gives to the next saved new event
FreeIds == {id \in EventIds : IsNone(events[id])}
NewIdentifier == IF "e1" \in FreeIds THEN "e1" ELSE "e2"

(***************************************************************************)
(* models.py (not part of the sources at hand; modelled from its tests and *)
(* from the specification).                                                *)
(***************************************************************************)
\* Frequency enum values
FrequencyValue(f) ==
    CASE f = "DAILY" -> 0 [] f = "WEEKLY" -> 1 [] f = "MONTHLY" -> 2 [] OTHER -> 3

\* a RecurrenceRule without the validator of its end condition
RecurrenceRuleValid_unchecked(rule) == TRUE

\* RecurrenceRule validation: end_date and occurrence_count exclude each other
RecurrenceRuleValid(rule) == ~(IsSome(rule.end_date) /\ IsSome(rule.occurrence_count))

\* RecurrenceRule.to_ek_recurrence
to_ek_recurrence(rule) ==
    [frequency |-> FrequencyValue(rule.frequency),
     interval |-> rule.interval,
     end |-> IF IsSome(rule.end_date) THEN <<"date", Val(rule.end_date)>>
             ELSE IF IsSome(rule.occurrence_count)
                  THEN <<"count", Val(rule.occurrence_count)>>
                  ELSE <<>>]

\* Event.from_ekevent: the portable record of a native event
from_ekevent(id, ek) ==
    [title |-> ek.title, start_time |-> ek.startDate, end_time |-> ek.endDate,
     identifier |-> id,
     calendar_name |-> IF ek.calendar = 0 THEN Nil ELSE calendars[ek.calendar],
     notes |-> ek.notes, location |-> ek.location, url |-> ek.url,
     all_day |-> ek.allDay,
     duration_minutes |-> ek.endDate - ek.startDate]

(***************************************************************************)
(* CalendarManager.  Each method is an operator giving the outcome of one  *)
(* call in the current state: the exception raised (or None), the value    *)
(* returned, the store's events afterwards and the store operations issued.*)
(* The parameter ok of a mutating method is the store's answer to its save *)
(* or remove.                                                              *)
(***************************************************************************)
Outcome(raised, ret, evs, issued) ==
    [raised |-> raised, ret |-> ret, events |-> evs, ops |-> issued]

_find_calendar_by_name(calendar_name) ==
    LET hits == {i \in 1..Len(calendars) : calendars[i] = calendar_name}
    IN  IF hits = {} THEN 0 ELSE Min(hits)

list_calendar_names ==
    Outcome(None, calendars, events, <<Op("calendars", "")>>)

\* events whose interval intersects [start_time, end_time], in the given
\* calendar (0: all calendars)
eventsMatching(start_time, end_time, calendar) ==
    {id \in DOMAIN events :
        /\ IsSome(events[id])
        /\ Val(events[id]).startDate <= end_time
        /\ Val(events[id]).endDate >= start_time
        /\ (calendar = 0 \/ Val(events[id]).calendar = calendar)}

list_events(start_time, end_time, calendar_name) ==
    LET named == TruthyStr(calendar_name)
        calendar == IF named THEN _find_calendar_by_name(Val(calendar_name)) ELSE 0
        lookups == IF named THEN <<Op("calendars", "")>> ELSE <<>>
    IN  IF named /\ calendar = 0
        THEN Outcome(Some(Exc("NoSuchCalendarException", Val(calendar_name))),
                     {}, events, lookups)
        ELSE Outcome(None,
                     {from_ekevent(id, Val(events[id])) :
                         id \in eventsMatching(start_time, end_time, calendar)},
                     events, lookups \o <<Op("query", "")>>)

\* find_event_by_id called when the store holds the events evs
find_event_in(evs, identifier) ==
    LET ekevent == IF identifier \in DOMAIN evs THEN evs[identifier] ELSE None
    IN  Outcome(None,
                IF IsNone(ekevent) THEN None
                ELSE Some(from_ekevent(identifier, Val(ekevent))),
                evs, <<Op("lookup", identifier)>>)

find_event_by_id(identifier) == find_event_in(events, identifier)

\* the store's diagnostic of a failed save or remove
StoreError == "store error"

\* a failed save that is issued again before the method gives up
save_failed_retrying(issued, span) ==
    Outcome(Some(Exc("Exception", StoreError)), None, events,
            issued \o <<Op("save", span), Op("save", span)>>)

\* saveEvent_span_error_ answers (False, error): raise Exception(error)
save_failed(issued, span) ==
    Outcome(Some(Exc("Exception", StoreError)), None, events,
            issued \o <<Op("save", span)>>)

\* an Event built from the native event as it was before setCalendar_
created_event_unbound(identifier, ekevent) ==
    from_ekevent(identifier, [ekevent EXCEPT !.calendar = 0])

\* create_event returns Event.from_ekevent(ekevent) of the saved native event
created_event(identifier, ekevent) == from_ekevent(identifier, ekevent)

\* the native alarms create_event adds for the offsets of a request
create_alarms(new_event) ==
    IF TruthySeq(new_event.alarms_minutes_offsets)
    THEN LET offsets == Val(new_event.alarms_minutes_offsets)
         IN  [i \in 1..Len(offsets) |-> (0 - SecondsPerMinute) * offsets[i]]
    ELSE <<>>

create_event(new_event, ok) ==
    LET ekevent ==
            [NewEKEvent EXCEPT
                !.title = new_event.title,
                !.startDate = new_event.start_time,
                !.endDate = new_event.end_time,
                !.notes = IF TruthyStr(new_event.notes) THEN Val(new_event.notes) ELSE @,
                !.location = IF TruthyStr(new_event.location)
                             THEN Val(new_event.location) ELSE @,
                !.url = IF TruthyStr(new_event.url) THEN Val(new_event.url) ELSE @,
                !.allDay = IF new_event.all_day THEN new_event.all_day ELSE @,
                !.alarms = @ \o create_alarms(new_event),
                !.recurrence = IF IsSome(new_event.recurrence_rule)
                               THEN Some(to_ek_recurrence(Val(new_event.recurrence_rule)))
                               ELSE @]
        named == TruthyStr(new_event.calendar_name)
        calendar == IF named THEN _find_calendar_by_name(Val(new_event.calendar_name))
                    ELSE defaultCalendar
        lookups == IF named THEN <<Op("calendars", "")>>
                   ELSE <<Op("defaultCalendar", "")>>
        bound == [ekevent EXCEPT !.calendar = calendar]
        identifier == NewIdentifier
    IN  IF named /\ calendar = 0
        THEN Outcome(Some(Exc("NoSuchCalendarException", Val(new_event.calendar_name))),
                     None, events, lookups)
        ELSE IF ~ok
        THEN save_failed(lookups, EKSpanThisEvent)
        ELSE Outcome(None, Some(created_event(identifier, bound)),
                     [events EXCEPT ![identifier] = Some(bound)],
                     lookups \o <<Op("save", EKSpanThisEvent)>>)

\* the native alarms update_event sets for the offsets of a request
update_alarms(request) ==
    LET offsets == Val(request.alarms_minutes_offsets)
        actual_minutes(minutes) ==
            IF TruthyBool(request.all_day) THEN minutes - MinutesPerDay ELSE minutes
    IN  [i \in 1..Len(offsets) |-> (0 - SecondsPerMinute) * actual_minutes(offsets[i])]

\* update_event up to the calendar lookup: the fields set on the native event
update_fields(ek, request) ==
    [ek EXCEPT
        !.title = IF IsSome(request.title) THEN Val(request.title) ELSE @,
        !.startDate = IF IsSome(request.start_time) THEN Val(request.start_time) ELSE @,
        !.endDate = IF IsSome(request.end_time) THEN Val(request.end_time) ELSE @,
        !.location = IF IsSome(request.location) THEN Val(request.location) ELSE @,
        !.notes = IF IsSome(request.notes) THEN Val(request.notes) ELSE @,
        !.url = IF IsSome(request.url) THEN Val(request.url) ELSE @,
        !.allDay = IF IsSome(request.all_day) THEN Val(request.all_day) ELSE @]

\* the request names a calendar (a None or empty name does not)
update_names_calendar(request) == TruthyStr(request.calendar_name)

\* update_rule_and_alarms with the new alarms added to the old ones
update_rule_and_alarms_merging(ek, request) ==
    [ek EXCEPT
        !.recurrence = IF IsSome(request.recurrence_rule)
                       THEN Some(to_ek_recurrence(Val(request.recurrence_rule)))
                       ELSE @,
        !.alarms = IF IsSome(request.alarms_minutes_offsets)
                   THEN @ \o update_alarms(request) ELSE @]

\* update_event after the calendar lookup: recurrence rule and alarms
update_rule_and_alarms(ek, request) ==
    [ek EXCEPT
        !.recurrence = IF IsSome(request.recurrence_rule)
                       THEN Some(to_ek_recurrence(Val(request.recurrence_rule)))
                       ELSE @,
        !.alarms = IF IsSome(request.alarms_minutes_offsets)
                   THEN update_alarms(request) ELSE @]

update_event(event_id, request, ok) ==
    LET existing == eventWithIdentifier(event_id)
        lookup == <<Op("lookup", event_id)>>
        named == update_names_calendar(request)
        calendar == IF named THEN _find_calendar_by_name(Val(request.calendar_name))
                    ELSE 0
        lookups == IF named THEN lookup \o <<Op("calendars", "")>> ELSE lookup
        set == update_fields(Val(existing), request)
        moved == IF named THEN [set EXCEPT !.calendar = calendar] ELSE set
        updated == update_rule_and_alarms(moved, request)
    IN  IF IsNone(existing)
        THEN Outcome(Some(Exc("NoSuchEventException", event_id)), None, events, lookup)
        ELSE IF named /\ calendar = 0
        THEN Outcome(Some(Exc("NoSuchCalendarException", Val(request.calendar_name))),
                     None, events, lookups)
        ELSE IF ~ok
        THEN save_failed(lookups, EKSpanFutureEvents)
        ELSE Outcome(None, Some(from_ekevent(event_id, updated)),
                     [events EXCEPT ![event_id] = Some(updated)],
                     lookups \o <<Op("save", EKSpanFutureEvents)>>)

\* delete_event removing the one occurrence only
delete_event_this_event(event_id, ok) ==
    LET existing == eventWithIdentifier(event_id)
        lookup == <<Op("lookup", event_id)>>
    IN  IF IsNone(existing)
        THEN Outcome(Some(Exc("NoSuchEventException", event_id)), FALSE, events, lookup)
        ELSE IF ~ok
        THEN Outcome(Some(Exc("Exception", StoreError)), FALSE, events,
                     lookup \o <<Op("remove", EKSpanThisEvent)>>)
        ELSE Outcome(None, TRUE, [events EXCEPT ![event_id] = None],
                     lookup \o <<Op("remove", EKSpanThisEvent)>>)

\* delete_event with the remove issued before the event is looked at
delete_event_remove_first(event_id, ok) ==
    LET existing == eventWithIdentifier(event_id)
        issued == <<Op("lookup", event_id), Op("remove", EKSpanFutureEvents)>>
    IN  IF IsNone(existing)
        THEN Outcome(Some(Exc("NoSuchEventException", event_id)), FALSE, events, issued)
        ELSE IF ~ok
        THEN Outcome(Some(Exc("Exception", StoreError)), FALSE, events, issued)
        ELSE Outcome(None, TRUE, [events EXCEPT ![event_id] = None], issued)

delete_event(event_id, ok) ==
    LET existing == eventWithIdentifier(event_id)
        lookup == <<Op("lookup", event_id)>>
    IN  IF IsNone(existing)
        THEN Outcome(Some(Exc("NoSuchEventException", event_id)), FALSE, events, lookup)
        ELSE IF ~ok
        THEN Outcome(Some(Exc("Exception", StoreError)), FALSE, events,
                     lookup \o <<Op("remove", EKSpanFutureEvents)>>)
        ELSE Outcome(None, TRUE, [events EXCEPT ![event_id] = None],
                     lookup \o <<Op("remove", EKSpanFutureEvents)>>)

(***************************************************************************)
(* server.py: the handlers.  A handler is an operator of the params dict   *)
(* and of the store's answer ok to a save or remove; it gives the text     *)
(* returned (or the fault that escapes), the store's events afterwards and *)
(* the store operations issued by the handler's body.                      *)
(***************************************************************************)
\* datetime.fromisoformat on the strings the callers send
IsoMinutes ==
    [s \in {"2025-11-05T00:00:00", "2025-11-05T10:00:00", "2025-11-05T11:00:00",
            "2025-11-05T12:00:00", "2025-11-05T13:00:00", "2025-11-06T09:00:00",
            "2025-11-06T23:59:00", "2026-01-31T23:59:00"} |->
        CASE s = "2025-11-05T00:00:00" -> 0
          [] s = "2025-11-05T10:00:00" -> 600
          [] s = "2025-11-05T11:00:00" -> 660
          [] s = "2025-11-05T12:00:00" -> 720
          [] s = "2025-11-05T13:00:00" -> 780
          [] s = "2025-11-06T09:00:00" -> 1980
          [] s = "2025-11-06T23:59:00" -> 2879
          [] OTHER -> 126719]

\* the exception datetime.fromisoformat raises on o, or None
fromisoformat_raises(o) ==
    IF IsNone(o) THEN Some(Exc("TypeError", "fromisoformat: argument must be str"))
    ELSE IF Val(o) \notin DOMAIN IsoMinutes
         THEN Some(Exc("ValueError", "Invalid isoformat string"))
         ELSE None
fromisoformat(o) == IsoMinutes[Val(o)]

Text(msg, detail) == [kind |-> "text", msg |-> msg, detail |-> detail]
Fault(exc) == [kind |-> "fault", msg |-> exc.cls, detail |-> exc.arg]
NoResult == [kind |-> "none", msg |-> "", detail |-> ""]

\* a handler that catches ValueError only
Catches_ValueError(cls) == cls \in {"ValueError", "ValidationError"}

\* "except Exception" catches cls
Catches(cls) == cls \in ExceptionSubclasses

\* try: ... except Exception as e: return f"{prefix}: {str(e)}"
Handled(prefix, exc) == IF Catches(exc.cls) THEN Text(prefix, exc.cls) ELSE Fault(exc)

HandlerOutcome(res, evs, issued) == [result |-> res, events |-> evs, ops |-> issued]

\* get_calendar_manager raised in this invocation
PermissionError == Exc("ValueError", "Calendar access is not granted")

list_calendars_handler(params) ==
    IF mgr_error
    THEN HandlerOutcome(Handled("Error listing calendars", PermissionError), events, <<>>)
    ELSE LET out == list_calendar_names
         IN  HandlerOutcome(
                 IF Len(out.ret) = 0 THEN Text("No calendars found", "")
                 ELSE Text("Available calendars", ""),
                 out.events, out.ops)

(***************************************************************************)
(* The output of list_events_handler.  A string that takes part in a       *)
(* comparison is the sequence of its character codes; a line of the output *)
(* is a record of its kind and of the values it renders.  The one-line     *)
(* summary of an event (Event.to_summary_string) stands as the event's     *)
(* identifier, the notes excerpt as a line of its own.                     *)
(***************************************************************************)
\* the calendar date of a datetime: year, month, day
date_of(t) ==
    LET day == t \div MinutesPerDay
    IN  IF day <= 25 THEN <<2025, 11, 5 + day>>
        ELSE IF day <= 56 THEN <<2025, 12, day - 25>>
        ELSE <<2026, 1, day - 56>>

\* the decimal digits of n, zero-padded to width characters
RECURSIVE zero_padded(_, _)
zero_padded(n, width) ==
    IF width = 0 THEN <<>>
    ELSE Append(zero_padded(n \div 10, width - 1), 48 + (n % 10))

\* start_time.strftime("%Y-%m-%d")
strftime_date(t) ==
    LET ymd == date_of(t)
    IN  zero_padded(ymd[1], 4) \o <<45>> \o zero_padded(ymd[2], 2) \o <<45>>
            \o zero_padded(ymd[3], 2)

\* a < b for two Python strings
str_less(a, b) ==
    LET common == IF Len(a) < Len(b) THEN Len(a) ELSE Len(b)
        differ == {i \in 1..common : a[i] # b[i]}
    IN  IF differ = {} THEN Len(a) < Len(b)
        ELSE a[Min(differ)] < b[Min(differ)]

\* sorted(events_by_date.keys())
RECURSIVE sorted_keys(_)
sorted_keys(keys) ==
    IF keys = {} THEN <<>>
    ELSE LET least == CHOOSE k \in keys : \A other \in keys \ {k} : str_less(k, other)
         IN  <<least>> \o sorted_keys(keys \ {least})

\* the events of a date in the order list_events returned them
sorted_by_start_unsorted(listed) == listed

\* sorted(events_by_date[date_key], key=lambda e: e.start_time): a stable sort
RECURSIVE sorted_by_start(_)
sorted_by_start(listed) ==
    IF listed = <<>> THEN <<>>
    ELSE LET front == sorted_by_start(SubSeq(listed, 1, Len(listed) - 1))
             event == listed[Len(listed)]
             k == Cardinality({i \in 1..Len(front) :
                                  front[i].start_time <= event.start_time})
         IN  SubSeq(front, 1, k) \o <<event>> \o SubSeq(front, k + 1, Len(front))

\* a total that is assigned where it should be added to
sum_minutes_assigned(listed) ==
    IF listed = <<>> THEN 0 ELSE listed[Len(listed)].duration_minutes

\* day_minutes += event.duration_minutes over the events of a date, and
\* total_minutes += event.duration_minutes over the events of all dates
RECURSIVE sum_minutes(_)
sum_minutes(listed) ==
    IF listed = <<>> THEN 0
    ELSE sum_minutes(SubSeq(listed, 1, Len(listed) - 1))
             + listed[Len(listed)].duration_minutes

Line(kind, date, id, minutes) ==
    [kind |-> kind, date |-> date, id |-> id, minutes |-> minutes]

\* the lines of one event: its summary, and its notes if it has any
RECURSIVE event_lines(_)
event_lines(listed) ==
    IF listed = <<>> THEN <<>>
    ELSE LET event == Head(listed)
         IN  <<Line("event", <<>>, event.identifier, 0)>>
                 \o (IF event.notes # Nil /\ event.notes # ""
                     THEN <<Line("notes", <<>>, event.identifier, 0)>> ELSE <<>>)
                 \o event_lines(Tail(listed))

\* events_by_date[date_key]: the events of a date, in the order returned
events_by_date(listed, date_key) ==
    SelectSeq(listed, LAMBDA event : strftime_date(event.start_time) = date_key)

\* the lines of the dates date_keys, and the events rendered, in order
RECURSIVE date_blocks(_, _)
date_blocks(listed, date_keys) ==
    IF date_keys = <<>> THEN [lines |-> <<>>, rendered |-> <<>>]
    ELSE LET date_key == Head(date_keys)
             day == sorted_by_start(events_by_date(listed, date_key))
             rest == date_blocks(listed, Tail(date_keys))
         IN  [lines |-> <<Line("date", date_key, "", 0)>> \o event_lines(day)
                           \o <<Line("daily", <<>>, "", sum_minutes(day))>>
                           \o rest.lines,
              rendered |-> day \o rest.rendered]

\* the output lines for the events listed (a non-empty sequence)
format_events(listed) ==
    LET date_keys == sorted_keys({strftime_date(listed[i].start_time) :
                                     i \in 1..Len(listed)})
        blocks == date_blocks(listed, date_keys)
    IN  blocks.lines \o <<Line("total", <<>>, "", sum_minutes(blocks.rendered))>>

list_events_handler(params) ==
    LET prefix == "Error listing events"
        bad_start == fromisoformat_raises(params.start_date)
        bad_end == fromisoformat_raises(params.end_date)
        out == list_events(fromisoformat(params.start_date),
                           fromisoformat(params.end_date), params.calendar_name)
    IN  IF mgr_error
        THEN HandlerOutcome(Handled(prefix, PermissionError), events, <<>>)
        ELSE IF IsSome(bad_start)
        THEN HandlerOutcome(Handled(prefix, Val(bad_start)), events, <<>>)
        ELSE IF IsSome(bad_end)
        THEN HandlerOutcome(Handled(prefix, Val(bad_end)), events, <<>>)
        ELSE IF IsSome(out.raised)
        THEN HandlerOutcome(Handled(prefix, Val(out.raised)), out.events, out.ops)
        ELSE IF out.ret = {}
        THEN HandlerOutcome(Text("No events found in the specified date range", ""),
                            out.events, out.ops)
        ELSE HandlerOutcome(Text("Total time", ""), out.events, out.ops)

\* pydantic validation of CreateEventRequest / UpdateEventRequest: the
\* exception raised on construction, or None
create_request_raises(params) ==
    IF IsNone(params.title)
    THEN Some(Exc("ValidationError", "title"))
    ELSE IF IsSome(params.recurrence_rule)
            /\ ~RecurrenceRuleValid(Val(params.recurrence_rule))
         THEN Some(Exc("ValidationError", "Only one of end_date or occurrence_count"))
         ELSE None

update_request_raises(params) ==
    IF IsSome(params.recurrence_rule) /\ ~RecurrenceRuleValid(Val(params.recurrence_rule))
    THEN Some(Exc("ValidationError", "Only one of end_date or occurrence_count"))
    ELSE None

CreateEventRequest(params) ==
    [title |-> Val(params.title),
     start_time |-> fromisoformat(params.start_time),
     end_time |-> fromisoformat(params.end_time),
     calendar_name |-> params.calendar_name,
     location |-> params.location,
     notes |-> params.notes,
     alarms_minutes_offsets |-> params.alarms_minutes_offsets,
     url |-> params.url,
     all_day |-> IF IsSome(params.all_day) THEN Val(params.all_day) ELSE FALSE,
     recurrence_rule |-> params.recurrence_rule]

create_event_handler(params, ok) ==
    LET prefix == "Error creating event"
        bad_start == fromisoformat_raises(params.start_time)
        bad_end == fromisoformat_raises(params.end_time)
        invalid == create_request_raises(params)
        out == create_event(CreateEventRequest(params), ok)
    IN  IF mgr_error
        THEN HandlerOutcome(Handled(prefix, PermissionError), events, <<>>)
        ELSE IF IsSome(bad_start)
        THEN HandlerOutcome(Handled(prefix, Val(bad_start)), events, <<>>)
        ELSE IF IsSome(bad_end)
        THEN HandlerOutcome(Handled(prefix, Val(bad_end)), events, <<>>)
        ELSE IF IsSome(invalid)
        THEN HandlerOutcome(Handled(prefix, Val(invalid)), events, <<>>)
        ELSE IF IsSome(out.raised)
        THEN HandlerOutcome(Handled(prefix, Val(out.raised)), out.events, out.ops)
        ELSE HandlerOutcome(Text("Successfully created event", Val(out.ret).identifier),
                            out.events, out.ops)

UpdateEventRequest(params) ==
    [title |-> params.title,
     start_time |-> IF IsSome(params.start_time)
                    THEN Some(fromisoformat(params.start_time)) ELSE None,
     end_time |-> IF IsSome(params.end_time)
                  THEN Some(fromisoformat(params.end_time)) ELSE None,
     calendar_name |-> params.calendar_name,
     location |-> params.location,
     notes |-> params.notes,
     alarms_minutes_offsets |-> params.alarms_minutes_offsets,
     url |-> params.url,
     all_day |-> params.all_day,
     recurrence_rule |-> params.recurrence_rule]

update_event_handler(params, ok) ==
    LET prefix == "Error updating event"
        bad_start == IF IsSome(params.start_time)
                     THEN fromisoformat_raises(params.start_time) ELSE None
        bad_end == IF IsSome(params.end_time)
                   THEN fromisoformat_raises(params.end_time) ELSE None
        invalid == update_request_raises(params)
        out == update_event(Val(params.event_id), UpdateEventRequest(params), ok)
    IN  IF mgr_error
        THEN HandlerOutcome(Handled(prefix, PermissionError), events, <<>>)
        ELSE IF ~TruthyStr(params.event_id)
        THEN HandlerOutcome(Text("Error: Missing required parameter (event_id)", ""),
                            events, <<>>)
        ELSE IF IsSome(bad_start)
        THEN HandlerOutcome(Handled(prefix, Val(bad_start)), events, <<>>)
        ELSE IF IsSome(bad_end)
        THEN HandlerOutcome(Handled(prefix, Val(bad_end)), events, <<>>)
        ELSE IF IsSome(invalid)
        THEN HandlerOutcome(Handled(prefix, Val(invalid)), events, <<>>)
        ELSE IF IsSome(out.raised)
        THEN HandlerOutcome(Handled(prefix, Val(out.raised)), out.events, out.ops)
        ELSE HandlerOutcome(Text("Successfully updated event", Val(out.ret).title),
                            out.events, out.ops)

\* delete_event_handler without the test of event_id: str(None) is looked up
delete_event_handler_unchecked(params, ok) ==
    LET prefix == "Error deleting event"
        event_id == IF IsSome(params.event_id) THEN Val(params.event_id) ELSE "None"
        found == find_event_by_id(event_id)
        out == delete_event(event_id, ok)
    IN  IF mgr_error
        THEN HandlerOutcome(Handled(prefix, PermissionError), events, <<>>)
        ELSE IF IsNone(found.ret)
        THEN HandlerOutcome(Text("Event with ID not found", event_id),
                            events, found.ops)
        ELSE IF IsSome(out.raised)
        THEN HandlerOutcome(Handled(prefix, Val(out.raised)), out.events,
                            found.ops \o out.ops)
        ELSE HandlerOutcome(Text("Successfully deleted event", Val(found.ret).title),
                            out.events, found.ops \o out.ops)

delete_event_handler(params, ok) ==
    LET prefix == "Error deleting event"
        found == find_event_by_id(Val(params.event_id))
        out == delete_event(Val(params.event_id), ok)
    IN  IF mgr_error
        THEN HandlerOutcome(Handled(prefix, PermissionError), events, <<>>)
        ELSE IF ~TruthyStr(params.event_id)
        THEN HandlerOutcome(Text("Error: Missing required parameter (event_id)", ""),
                            events, <<>>)
        ELSE IF IsNone(found.ret)
        THEN HandlerOutcome(Text("Event with ID not found", Val(params.event_id)),
                            events, found.ops)
        ELSE IF IsSome(out.raised)
        THEN HandlerOutcome(Handled(prefix, Val(out.raised)), out.events,
                            found.ops \o out.ops)
        ELSE HandlerOutcome(Text("Successfully deleted event", Val(found.ret).title),
                            out.events, found.ops \o out.ops)

(***************************************************************************)
(* The inputs: params dicts of the tool invocations.                       *)
(***************************************************************************)
RuleDaily ==
    [frequency |-> "DAILY", interval |-> 1, end_date |-> None, occurrence_count |-> None]
RuleBoth ==
    [frequency |-> "DAILY", interval |-> 1, end_date |-> Some(2879),
     occurrence_count |-> Some(10)]

OptionalFields ==
    {"calendar_name", "location", "notes", "alarms_minutes_offsets", "url", "all_day",
     "recurrence_rule"}
UpdateFields == OptionalFields \cup {"title", "start_time", "end_time"}

\* number of the given fields present in a params dict
Present(params, fields) == Cardinality({f \in fields : IsSome(params[f])})

NoParams ==
    [event_id |-> None, title |-> None, start_time |-> None, end_time |-> None,
     calendar_name |-> None, location |-> None, notes |-> None,
     alarms_minutes_offsets |-> None, url |-> None, all_day |-> None,
     recurrence_rule |-> None, start_date |-> None, end_date |-> None]

ListEventsParams ==
    [event_id : {None}, title : {None}, start_time : {None}, end_time : {None},
     calendar_name : {None, Some(""), Some("Work"), Some("Nope")},
     location : {None}, notes : {None}, alarms_minutes_offsets : {None},
     url : {None}, all_day : {None}, recurrence_rule : {None},
     start_date : {None, Some("2025-11-05T00:00:00"), Some("tomorrow")},
     end_date : {Some("2025-11-06T23:59:00"), Some("2026-01-31T23:59:00")}]

CreateParams ==
    {q : q \in {p \in [event_id : {None}, title : {None, Some("B")},
            start_time : {Some("2025-11-06T09:00:00")},
            end_time : {Some("2025-11-06T23:59:00")},
            calendar_name : {None, Some(""), Some("Work"), Some("Nope")},
            location : {None, Some("L")},
            notes : {None, Some(""), Some("N")},
            alarms_minutes_offsets : {None, Some(<<15>>)},
            url : {None, Some("U")},
            all_day : {None, Some(TRUE)},
            recurrence_rule : {None, Some(RuleDaily), Some(RuleBoth)},
            start_date : {None}, end_date : {None}] :
        Present(p, OptionalFields) <= MaxFields}}

UpdateParams ==
    {q : q \in {p \in [event_id : {None, Some("e1"), Some("e2")},
            title : {None, Some("B")},
            start_time : {None, Some("2025-11-05T12:00:00"), Some("tomorrow")},
            end_time : {None, Some("2025-11-05T13:00:00")},
            calendar_name : {None, Some(""), Some("Home"), Some("Nope")},
            location : {None, Some("L")},
            notes : {None, Some("")},
            alarms_minutes_offsets : {None, Some(<<>>), Some(<<15>>)},
            url : {None, Some("U")},
            all_day : {None, Some(TRUE), Some(FALSE)},
            recurrence_rule : {None, Some(RuleDaily)},
            start_date : {None}, end_date : {None}] :
        Present(p, UpdateFields) <= MaxFields}}

DeleteParams == {[NoParams EXCEPT !.event_id = id] : id \in {None, Some("e1"), Some("e2")}}

Tools == {"list_calendars", "list_events", "create_event", "update_event", "delete_event"}
MutatingTools == {"create_event", "update_event", "delete_event"}

(***************************************************************************)
(* Initial state: a store with three calendars (two of them share a title) *)
(* and one event, timed or all-day; nothing cached, no handler running.    *)
(***************************************************************************)
TimedEvent ==
    [title |-> "A", startDate |-> 600, endDate |-> 660, location |-> "Room",
     notes |-> "old", url |-> Nil, allDay |-> FALSE, calendar |-> 3,
     recurrence |-> None, alarms |-> <<-600>>]
AllDayEvent ==
    [title |-> "A", startDate |-> 0, endDate |-> 1439, location |-> Nil,
     notes |-> "old", url |-> Nil, allDay |-> TRUE, calendar |-> 1,
     recurrence |-> None, alarms |-> <<85500>>]

Init ==
    /\ calendars = <<"Work", "Home", "Work">>
    /\ defaultCalendar = 2
    /\ \E e \in {TimedEvent, AllDayEvent} :
           events = [id \in EventIds |-> IF id = "e1" THEN Some(e) ELSE None]
    /\ manager = FALSE
    /\ pc = "idle"
    /\ tool = ""
    /\ semaphore = 0
    /\ access_granted = FALSE
    /\ completion = "none"
    /\ mgr_error = FALSE
    /\ ops = <<>>
    /\ result = NoResult
    /\ granted_ever = FALSE
    /\ denied_ever = FALSE
    /\ nmut = 0

storeFrame == UNCHANGED <<calendars, defaultCalendar>>

(***************************************************************************)
(* call_tool dispatches to a handler, whose first statement is             *)
(* get_calendar_manager(): a cached manager is returned at once, otherwise *)
(* CalendarManager() is constructed.                                       *)
(***************************************************************************)
\* get_calendar_manager without its cache: every invocation constructs
Invoke_uncached(t) ==
    /\ pc = "idle"
    /\ t \in MutatingTools => nmut < MaxMutations
    /\ t = "create_event" => FreeIds # {}
    /\ tool' = t
    /\ pc' = "construct"
    /\ ops' = <<>>
    /\ result' = NoResult
    /\ mgr_error' = FALSE
    /\ completion' = "none"
    /\ storeFrame
    /\ UNCHANGED <<events, manager, semaphore, access_granted, granted_ever,
                   denied_ever, nmut>>

Invoke(t) ==
    /\ pc = "idle"
    /\ t \in MutatingTools => nmut < MaxMutations
    /\ t = "create_event" => FreeIds # {}
    /\ tool' = t
    /\ pc' = IF manager THEN "body" ELSE "construct"
    /\ ops' = <<>>
    /\ result' = NoResult
    /\ mgr_error' = FALSE
    /\ completion' = "none"
    /\ storeFrame
    /\ UNCHANGED <<events, manager, semaphore, access_granted, granted_ever,
                   denied_ever, nmut>>

\* _request_access up to the call of requestAccessToEntityType_completion_
IssueRequest ==
    /\ pc = "construct"
    /\ semaphore' = 0
    /\ access_granted' = FALSE
    /\ completion' = "pending"
    /\ ops' = Append(ops, Op("requestAccess", ""))
    /\ pc' = "in_request"
    /\ storeFrame
    /\ UNCHANGED <<events, manager, tool, mgr_error, result, granted_ever,
                   denied_ever, nmut>>

\* a completion that sets the flag and does not release the semaphore
Completion_without_release(granted) ==
    /\ completion = "pending"
    /\ pc \in {"in_request", "acquire"}
    /\ access_granted' = granted
    /\ completion' = "done"
    /\ granted_ever' = (granted_ever \/ granted)
    /\ denied_ever' = (denied_ever \/ ~granted)
    /\ storeFrame
    /\ UNCHANGED <<events, manager, pc, tool, semaphore, mgr_error, ops, result, nmut>>

\* the store runs the completion callback: inside the request call, or on
\* another thread once the caller has gone on to semaphore.acquire()
Completion(granted) ==
    /\ completion = "pending"
    /\ pc \in {"in_request", "acquire"}
    /\ access_granted' = granted
    /\ semaphore' = semaphore + 1
    /\ completion' = "done"
    /\ granted_ever' = (granted_ever \/ granted)
    /\ denied_ever' = (denied_ever \/ ~granted)
    /\ storeFrame
    /\ UNCHANGED <<events, manager, pc, tool, mgr_error, ops, result, nmut>>

\* requestAccessToEntityType_completion_ returns to _request_access
ReturnFromRequest ==
    /\ pc = "in_request"
    /\ pc' = "acquire"
    /\ storeFrame
    /\ UNCHANGED <<events, manager, tool, semaphore, access_granted, completion,
                   mgr_error, ops, result, granted_ever, denied_ever, nmut>>

\* a wait that does not block
AcquireReady_nonblocking == TRUE

\* semaphore.acquire() may return
AcquireReady == semaphore > 0

\* an __init__ that ignores the answer of _request_access
ConstructionFails_never == FALSE

\* CalendarManager.__init__ raises ValueError
ConstructionFails == ~access_granted

\* semaphore.acquire() returns; __init__ and get_calendar_manager finish:
\* the manager is cached, or ValueError is raised and nothing is cached
Acquire ==
    /\ pc = "acquire"
    /\ AcquireReady
    /\ semaphore' = semaphore - 1
    /\ manager' = ~ConstructionFails
    /\ mgr_error' = ConstructionFails
    /\ pc' = "body"
    /\ storeFrame
    /\ UNCHANGED <<events, tool, access_granted, completion, ops, result,
                   granted_ever, denied_ever, nmut>>

\* the rest of a handler, from the return of get_calendar_manager to the
\* handler's return; the params are read only there
Finish(out) ==
    /\ events' = out.events
    /\ ops' = ops \o out.ops
    /\ result' = out.result
    /\ pc' = "idle"
    /\ nmut' = IF out.events # events THEN nmut + 1 ELSE nmut
    /\ storeFrame
    /\ UNCHANGED <<manager, tool, semaphore, access_granted, completion, mgr_error,
                   granted_ever, denied_ever>>

ParamsOf(S) == IF mgr_error THEN {NoParams} ELSE S

ListCalendars ==
    /\ pc = "body" /\ tool = "list_calendars"
    /\ Finish(list_calendars_handler(NoParams))

ListEvents ==
    /\ pc = "body" /\ tool = "list_events"
    /\ \E params \in ParamsOf(ListEventsParams) :
           Finish(list_events_handler(params))

CreateEvent ==
    /\ pc = "body" /\ tool = "create_event"
    /\ \E params \in ParamsOf(CreateParams), ok \in BOOLEAN :
           Finish(create_event_handler(params, ok))

\* update_event sets the fields of the request on the store's own native
\* event before it looks up the calendar and before it saves.  When it then
\* raises, nothing is saved, but the store may hand the same object, with
\* its unsaved changes, to a later lookup: these are the events a later
\* lookup finds in that case.
update_event_unsaved(event_id, request) ==
    LET existing == eventWithIdentifier(event_id)
        named == update_names_calendar(request)
        calendar == IF named THEN _find_calendar_by_name(Val(request.calendar_name))
                    ELSE 0
        set == update_fields(Val(existing), request)
        moved == IF named THEN [set EXCEPT !.calendar = calendar] ELSE set
    IN  IF named /\ calendar = 0
        THEN [events EXCEPT ![event_id] = Some(set)]
        ELSE [events EXCEPT ![event_id] = Some(update_rule_and_alarms(moved, request))]

\* update_event has raised after it modified the native event
update_raised_late(out) ==
    /\ out.result.msg = "Error updating event"
    /\ out.result.detail \in {"NoSuchCalendarException", "Exception"}

UpdateEvent ==
    /\ pc = "body" /\ tool = "update_event"
    /\ \E params \in ParamsOf(UpdateParams), ok \in BOOLEAN :
           LET out == update_event_handler(params, ok)
           IN  \/ Finish(out)
               \/ /\ update_raised_late(out)
                  /\ Finish([out EXCEPT !.events =
                                update_event_unsaved(Val(params.event_id),
                                                     UpdateEventRequest(params))])

DeleteEvent ==
    /\ pc = "body" /\ tool = "delete_event"
    /\ \E params \in ParamsOf(DeleteParams), ok \in BOOLEAN :
           Finish(delete_event_handler(params, ok))

\* a direct call of CalendarManager.delete_event on the constructed manager
ManagerDeleteEvent ==
    /\ pc = "idle"
    /\ manager
    /\ nmut < MaxMutations
    /\ \E id \in EventIds, ok \in BOOLEAN :
           LET out == delete_event(id, ok)
           IN  /\ events' = out.events
               /\ ops' = out.ops
               /\ result' = IF IsSome(out.raised)
                            THEN [kind |-> "raised", msg |-> Val(out.raised).cls,
                                  detail |-> Val(out.raised).arg]
                            ELSE [kind |-> "returned", msg |-> "True", detail |-> ""]
               /\ nmut' = IF out.events # events THEN nmut + 1 ELSE nmut
    /\ tool' = "manager.delete_event"
    /\ storeFrame
    /\ UNCHANGED <<manager, pc, semaphore, access_granted, completion, mgr_error,
                   granted_ever, denied_ever>>

Next ==
    \/ \E t \in Tools : Invoke(t)
    \/ IssueRequest
    \/ \E granted \in BOOLEAN : Completion(granted)
    \/ ReturnFromRequest
    \/ Acquire
    \/ ListCalendars
    \/ ListEvents
    \/ CreateEvent
    \/ UpdateEvent
    \/ DeleteEvent
    \/ ManagerDeleteEvent

Spec == Init /\ [][Next]_vars

(***************************************************************************)
(* The access specification: the invocations of the two reading tools,     *)
(* with the scheduling the access request relies on.  The store runs the   *)
(* completion of a request it has accepted, the call of the request        *)
(* returns, and a thread whose semaphore is released goes on.              *)
(***************************************************************************)
NextAccess ==
    \/ Invoke("list_calendars")
    \/ Invoke("list_events")
    \/ IssueRequest
    \/ \E granted \in BOOLEAN : Completion(granted)
    \/ ReturnFromRequest
    \/ Acquire
    \/ ListCalendars
    \/ ListEvents

AccessSpec ==
    /\ Init
    /\ [][NextAccess]_vars
    /\ WF_vars(\E granted \in BOOLEAN : Completion(granted))
    /\ WF_vars(ReturnFromRequest)
    /\ WF_vars(Acquire)

(***************************************************************************)
(* The listing specification: a session whose manager is constructed, on a *)
(* store that holds up to MaxListed events spread over several dates (two  *)
(* months and a change of year), in which list_events is invoked.          *)
(***************************************************************************)
ListingIds == {<<"e1", "e2", "e3", "e4">>[i] : i \in 1..MaxListed}

Listed(title, startDate, endDate, notes, calendar) ==
    [TimedEvent EXCEPT !.title = title, !.startDate = startDate, !.endDate = endDate,
                       !.notes = notes, !.calendar = calendar]

\* 2025-11-05 10:00-11:00, 2025-11-05 10:00-11:30, 2025-11-05 23:00-01:00,
\* 2025-11-10 09:00-10:00, 2025-12-01 08:00-08:45, 2026-01-01 10:00-11:00
ListedEvents ==
    {Listed("A", 600, 660, "old", 1), Listed("B", 600, 690, Nil, 2),
     Listed("C", 1380, 1500, "", 3), Listed("D", 7740, 7800, Nil, 1),
     Listed("E", 37920, 37965, "n", 2), Listed("F", 82680, 82740, Nil, 1)}

InitListing ==
    /\ calendars = <<"Work", "Home", "Work">>
    /\ defaultCalendar = 2
    /\ events \in [ListingIds -> {None} \cup {Some(e) : e \in ListedEvents}]
    /\ manager = TRUE
    /\ pc = "idle"
    /\ tool = ""
    /\ semaphore = 0
    /\ access_granted = TRUE
    /\ completion = "none"
    /\ mgr_error = FALSE
    /\ ops = <<>>
    /\ result = NoResult
    /\ granted_ever = TRUE
    /\ denied_ever = FALSE
    /\ nmut = 0

NextListing ==
    \/ Invoke("list_events")
    \/ ListEvents

ListingSpec == InitListing /\ [][NextListing]_vars

(***************************************************************************)
(* Vocabulary of the properties.                                           *)
(***************************************************************************)
HasOp(issued, name) == \E i \in 1..Len(issued) : issued[i].op = name
CountOp(issued, name) == Cardinality({i \in 1..Len(issued) : issued[i].op = name})
IssuesDataOp(issued) == \E i \in 1..Len(issued) : issued[i].op \in StoreDataOps
Raises(out, cls) == IsSome(out.raised) /\ Val(out.raised).cls = cls

\* a handler is about to call the manager method of its tool
UpdateReady == pc = "body" /\ tool = "update_event" /\ ~mgr_error
CreateReady == pc = "body" /\ tool = "create_event" /\ ~mgr_error
ListEventsReady == pc = "body" /\ tool = "list_events" /\ ~mgr_error

\* the params from which update_event_handler reaches manager.update_event
UpdateCalls ==
    {p \in UpdateParams :
        /\ TruthyStr(p.event_id)
        /\ IsSome(p.start_time) => IsNone(fromisoformat_raises(p.start_time))
        /\ IsNone(update_request_raises(p))}

\* the params from which create_event_handler reaches manager.create_event
CreateCalls ==
    {p \in CreateParams :
        /\ IsNone(fromisoformat_raises(p.start_time))
        /\ IsNone(create_request_raises(p))}

\* the params from which list_events_handler reaches manager.list_events
ListEventsCalls ==
    {p \in ListEventsParams :
        /\ IsNone(fromisoformat_raises(p.start_date))
        /\ IsNone(fromisoformat_raises(p.end_date))}

(***************************************************************************)
(* C1.  After a successful update_event every field absent from the        *)
(* request keeps its value in the store and every field present has the    *)
(* value of the request (for calendar_name: the event is in a calendar of   *)
(* that name).  The values of the alarms are the subject of C8 to C10;     *)
(* here only their frame is stated.  The code treats an empty              *)
(* calendar_name as absent, so the statement fails.                        *)
(***************************************************************************)
C1_FieldsReplacedOrKept(old, new, request) ==
    /\ new.title = IF IsSome(request.title) THEN Val(request.title) ELSE old.title
    /\ new.startDate = IF IsSome(request.start_time) THEN Val(request.start_time)
                       ELSE old.startDate
    /\ new.endDate = IF IsSome(request.end_time) THEN Val(request.end_time)
                     ELSE old.endDate
    /\ new.location = IF IsSome(request.location) THEN Val(request.location)
                      ELSE old.location
    /\ new.notes = IF IsSome(request.notes) THEN Val(request.notes) ELSE old.notes
    /\ new.url = IF IsSome(request.url) THEN Val(request.url) ELSE old.url
    /\ new.allDay = IF IsSome(request.all_day) THEN Val(request.all_day) ELSE old.allDay
    /\ IF IsSome(request.calendar_name)
       THEN new.calendar # 0 /\ calendars[new.calendar] = Val(request.calendar_name)
       ELSE new.calendar = old.calendar
    /\ new.recurrence = IF IsSome(request.recurrence_rule)
                        THEN Some(to_ek_recurrence(Val(request.recurrence_rule)))
                        ELSE old.recurrence
    /\ IsNone(request.alarms_minutes_offsets) => new.alarms = old.alarms

C1_PartialUpdate ==
    UpdateReady =>
        \A p \in UpdateCalls, ok \in BOOLEAN :
            LET id == Val(p.event_id)
                request == UpdateEventRequest(p)
                out == update_event(id, request, ok)
            IN  IsNone(out.raised) =>
                    C1_FieldsReplacedOrKept(Val(events[id]), Val(out.events[id]), request)

(***************************************************************************)
(* C2.  Calendar and event operations reach the store only in an           *)
(* invocation that holds a manager whose access request completed with     *)
(* granted = TRUE; when the request of an invocation completes with        *)
(* granted = FALSE the construction fails, nothing is cached and the       *)
(* invocation issues no calendar or event operation.                       *)
(***************************************************************************)
C2_NoStoreOpWithoutGrant ==
    /\ IssuesDataOp(ops) => granted_ever /\ manager /\ ~mgr_error
    /\ (completion = "done" /\ ~access_granted /\ pc \in {"body", "idle"}) =>
           mgr_error /\ ~manager /\ ~IssuesDataOp(ops)

\* list_calendars has enumerated the calendars after a grant
C2_Witness ==
    /\ granted_ever
    /\ tool = "list_calendars"
    /\ pc = "idle"
    /\ HasOp(ops, "calendars")

(***************************************************************************)
(* C3.  Once an access request has completed with granted = FALSE no later *)
(* invocation of the session issues a calendar or event operation.  The    *)
(* lru_cache keeps no raised exception, so a later invocation constructs a *)
(* new manager, requests access again and goes on if the store grants it.  *)
(***************************************************************************)
C3_DenialIsFatal == denied_ever => ~IssuesDataOp(ops)

(***************************************************************************)
(* C4.  A construction issues exactly one access request, goes on only     *)
(* after the store has run the completion, and succeeds exactly when the   *)
(* completion was given granted = TRUE.                                    *)
(***************************************************************************)
C4_OneRequestAwaited ==
    /\ CountOp(ops, "requestAccess") <= 1
    /\ pc \in {"in_request", "acquire"} => CountOp(ops, "requestAccess") = 1
    /\ (pc \in {"body", "idle"} /\ HasOp(ops, "requestAccess")) =>
           /\ completion = "done"
           /\ semaphore = 0
           /\ manager = access_granted
           /\ mgr_error = ~access_granted

\* a construction has gone through after the completion granted access
C4_Witness ==
    /\ pc = "body"
    /\ HasOp(ops, "requestAccess")
    /\ completion = "done"
    /\ access_granted
    /\ manager

(***************************************************************************)
(* C5.  Whatever is raised inside a handler, the handler returns a text:   *)
(* no fault reaches call_tool.                                             *)
(***************************************************************************)
C5_HandlersReturnText ==
    (tool \in Tools /\ pc = "idle" /\ result # NoResult) => result.kind = "text"

\* create_event_handler has turned a failed save into a text
C5_Witness ==
    /\ tool = "create_event"
    /\ pc = "idle"
    /\ result = Text("Error creating event", "Exception")
    /\ HasOp(ops, "save")

(***************************************************************************)
(* C6.  list_events with a calendar_name that matches no calendar raises   *)
(* NoSuchCalendarException and issues no event query.  The code takes an   *)
(* empty calendar_name for no name at all and queries every calendar.      *)
(***************************************************************************)
C6_UnknownCalendarRaises ==
    ListEventsReady =>
        \A p \in ListEventsCalls :
            (IsSome(p.calendar_name)
             /\ _find_calendar_by_name(Val(p.calendar_name)) = 0) =>
                LET out == list_events(fromisoformat(p.start_date),
                                       fromisoformat(p.end_date), p.calendar_name)
                IN  /\ Raises(out, "NoSuchCalendarException")
                    /\ ~HasOp(out.ops, "query")

(***************************************************************************)
(* C7.  update_event and delete_event on an identifier the store does not  *)
(* know raise NoSuchEventException, issue no save and no remove, and leave *)
(* the store's events as they were.                                        *)
(***************************************************************************)
C7_UnknownEventRaises ==
    /\ UpdateReady =>
           \A p \in UpdateCalls, ok \in BOOLEAN :
               IsNone(eventWithIdentifier(Val(p.event_id))) =>
                   LET out == update_event(Val(p.event_id), UpdateEventRequest(p), ok)
                   IN  /\ Raises(out, "NoSuchEventException")
                       /\ ~HasOp(out.ops, "save")
                       /\ out.events = events
    /\ (manager /\ pc = "idle") =>
           \A id \in {"e1", "e2"}, ok \in BOOLEAN :
               IsNone(eventWithIdentifier(id)) =>
                   LET out == delete_event(id, ok)
                   IN  /\ Raises(out, "NoSuchEventException")
                       /\ ~HasOp(out.ops, "remove")
                       /\ out.events = events

\* delete_event has been called with an unknown identifier
C7_Witness ==
    /\ tool = "manager.delete_event"
    /\ result.kind = "raised"
    /\ result.msg = "NoSuchEventException"
    /\ ~HasOp(ops, "remove")

(***************************************************************************)
(* C8.  create_event turns each offset m of a request into an alarm at     *)
(* -60 * (m - 1440) seconds when the request is all-day and at -60 * m     *)
(* seconds otherwise.  The code applies no all-day correction on create.   *)
(***************************************************************************)
C8_CreateAlarmCorrection ==
    CreateReady =>
        \A p \in CreateCalls, ok \in BOOLEAN :
            LET request == CreateEventRequest(p)
                out == create_event(request, ok)
                offsets == Val(request.alarms_minutes_offsets)
            IN  (IsNone(out.raised) /\ IsSome(request.alarms_minutes_offsets)) =>
                    Val(out.events[NewIdentifier]).alarms =
                        [i \in 1..Len(offsets) |->
                            (0 - SecondsPerMinute) *
                                (IF request.all_day THEN offsets[i] - MinutesPerDay
                                 ELSE offsets[i])]

(***************************************************************************)
(* C9.  update_event corrects the alarms by the effective all-day flag:    *)
(* the flag of the request if it has one, else the flag of the existing    *)
(* event.  The code looks at the flag of the request only.                 *)
(***************************************************************************)
C9_EffectiveAllDay ==
    UpdateReady =>
        \A p \in UpdateCalls, ok \in BOOLEAN :
            LET id == Val(p.event_id)
                request == UpdateEventRequest(p)
                out == update_event(id, request, ok)
                offsets == Val(request.alarms_minutes_offsets)
                effective == IF IsSome(request.all_day) THEN Val(request.all_day)
                             ELSE Val(events[id]).allDay
            IN  (IsNone(out.raised) /\ IsSome(request.alarms_minutes_offsets)) =>
                    Val(out.events[id]).alarms =
                        [i \in 1..Len(offsets) |->
                            (0 - SecondsPerMinute) *
                                (IF effective THEN offsets[i] - MinutesPerDay
                                 ELSE offsets[i])]

(***************************************************************************)
(* C10.  A successful update_event leaves the alarms alone when the        *)
(* request has no alarms field; when it has one (the empty list included)  *)
(* the event ends with one alarm per offset of the request, each at that   *)
(* offset (with or without the all-day correction), and none of the old    *)
(* alarms.                                                                 *)
(***************************************************************************)
C10_AlarmsReplacedOrKept ==
    UpdateReady =>
        \A p \in UpdateCalls, ok \in BOOLEAN :
            LET id == Val(p.event_id)
                request == UpdateEventRequest(p)
                out == update_event(id, request, ok)
                offsets == Val(request.alarms_minutes_offsets)
                after == Val(out.events[id]).alarms
            IN  IsNone(out.raised) =>
                    IF IsNone(request.alarms_minutes_offsets)
                    THEN after = Val(events[id]).alarms
                    ELSE /\ Len(after) = Len(offsets)
                         /\ \A i \in 1..Len(offsets) :
                                after[i] \in
                                    {(0 - SecondsPerMinute) * offsets[i],
                                     (0 - SecondsPerMinute) * (offsets[i] - MinutesPerDay)}

\* an update with an empty alarms list has removed the alarm of the event
C10_Witness ==
    /\ tool = "update_event"
    /\ pc = "idle"
    /\ result.msg = "Successfully updated event"
    /\ IsSome(events["e1"])
    /\ Val(events["e1"]).alarms = <<>>

(***************************************************************************)
(* C11.  Every save issued by create_event has the span EKSpanThisEvent;   *)
(* every save issued by update_event and every remove issued by            *)
(* delete_event has the span EKSpanFutureEvents; saves and removes are     *)
(* issued by these operations only.                                        *)
(***************************************************************************)
C11_Spans ==
    \A i \in 1..Len(ops) :
        /\ ops[i].op = "save" =>
               \/ tool = "create_event" /\ ops[i].arg = EKSpanThisEvent
               \/ tool = "update_event" /\ ops[i].arg = EKSpanFutureEvents
        /\ ops[i].op = "remove" =>
               /\ tool \in {"delete_event", "manager.delete_event"}
               /\ ops[i].arg = EKSpanFutureEvents

\* delete_event_handler has removed an event
C11_Witness ==
    /\ tool = "delete_event"
    /\ pc = "idle"
    /\ result.msg = "Successfully deleted event"
    /\ HasOp(ops, "remove")

(***************************************************************************)
(* C12.  create_event binds the new event to the first calendar, in the    *)
(* store's enumeration order, whose title is the name of the request when  *)
(* the request has a name, and to the store's default calendar otherwise;  *)
(* when the name matches no calendar it raises NoSuchCalendarException,    *)
(* issues no save and adds no event.  The code takes an empty name for no  *)
(* name and saves the event in the default calendar.                       *)
(***************************************************************************)
C12_CalendarResolution ==
    CreateReady =>
        \A p \in CreateCalls, ok \in BOOLEAN :
            LET request == CreateEventRequest(p)
                out == create_event(request, ok)
                name == request.calendar_name
                titled == {i \in 1..Len(calendars) : calendars[i] = Val(name)}
            IN  IF IsNone(name)
                THEN IsNone(out.raised) =>
                         Val(out.events[NewIdentifier]).calendar = defaultCalendar
                ELSE IF titled = {}
                THEN /\ Raises(out, "NoSuchCalendarException")
                     /\ ~HasOp(out.ops, "save")
                     /\ out.events = events
                ELSE IsNone(out.raised) =>
                         /\ Val(out.events[NewIdentifier]).calendar \in titled
                         /\ \A i \in titled :
                                Val(out.events[NewIdentifier]).calendar <= i

(***************************************************************************)
(* C13.  When create_event succeeds, find_event_by_id on the identifier of *)
(* the returned Event, called on the store as the create left it, returns  *)
(* an Event that agrees with the returned one on every field the request   *)
(* set.                                                                    *)
(***************************************************************************)
C13_AgreeOnSetFields(request, returned, found) ==
    /\ found.identifier = returned.identifier
    /\ found.title = returned.title
    /\ found.start_time = returned.start_time
    /\ found.end_time = returned.end_time
    /\ found.duration_minutes = returned.duration_minutes
    /\ IsSome(request.calendar_name) => found.calendar_name = returned.calendar_name
    /\ IsSome(request.location) => found.location = returned.location
    /\ IsSome(request.notes) => found.notes = returned.notes
    /\ IsSome(request.url) => found.url = returned.url
    /\ found.all_day = returned.all_day

RecurrenceRules ==
    [frequency : {"DAILY", "WEEKLY"}, interval : {1, 2},
     end_date : {None, Some(1980), Some(2879)},
     occurrence_count : {None, Some(1), Some(10)}]

C14_BothSet(rule) == IsSome(rule.end_date) /\ IsSome(rule.occurrence_count)

C14_CreateWith(rule) ==
    [NoParams EXCEPT !.title = Some("B"),
                     !.start_time = Some("2025-11-06T09:00:00"),
                     !.end_time = Some("2025-11-06T23:59:00"),
                     !.recurrence_rule = Some(rule)]

C14_UpdateWith(rule) ==
    [NoParams EXCEPT !.event_id = Some("e1"), !.recurrence_rule = Some(rule)]

C14_BothEndConditionsRejected ==
    /\ CreateReady =>
           \A rule \in RecurrenceRules, ok \in BOOLEAN :
               LET out == create_event_handler(C14_CreateWith(rule), ok)
               IN  IF C14_BothSet(rule)
                   THEN /\ out.result = Text("Error creating event", "ValidationError")
                        /\ out.ops = <<>>
                        /\ out.events = events
                   ELSE /\ HasOp(out.ops, "save")
                        /\ ok => /\ out.result.msg = "Successfully created event"
                                 /\ Val(out.events[NewIdentifier]).recurrence =
                                        Some(to_ek_recurrence(rule))
    /\ (UpdateReady /\ IsSome(events["e1"])) =>
           \A rule \in RecurrenceRules, ok \in BOOLEAN :
               LET out == update_event_handler(C14_UpdateWith(rule), ok)
               IN  IF C14_BothSet(rule)
                   THEN /\ out.result = Text("Error updating event", "ValidationError")
                        /\ out.ops = <<>>
                        /\ out.events = events
                   ELSE /\ HasOp(out.ops, "save")
                        /\ ok => /\ out.result.msg = "Successfully updated event"
                                 /\ Val(out.events["e1"]).recurrence =
                                        Some(to_ek_recurrence(rule))

\* create_event_handler has turned down a rule with both end conditions
C14_Witness ==
    /\ tool = "create_event"
    /\ pc = "idle"
    /\ result = Text("Error creating event", "ValidationError")
    /\ ops = <<>>
    /\ manager

(***************************************************************************)
(* Vocabulary of the claims on the output of list_events.                  *)
(***************************************************************************)
\* the orders in which the store may return the events of a set
Orders(S) ==
    {listed \in [1..Cardinality(S) -> S] :
        \A i, j \in 1..Cardinality(S) : i # j => listed[i] # listed[j]}

\* the positions of the lines of a kind
LinesOf(lines, kind) == {j \in 1..Len(lines) : lines[j].kind = kind}

\* the position of the date line under which line j stands (0: none)
HeaderOf(lines, j) ==
    LET above == {h \in 1..j : lines[h].kind = "date"}
    IN  IF above = {} THEN 0 ELSE CHOOSE h \in above : \A g \in above : g <= h

\* the event a line renders
EventOf(listed, line) ==
    listed[CHOOSE i \in 1..Len(listed) : listed[i].identifier = line.id]

\* the sum of f over the set S of positions
RECURSIVE SumOver(_, _)
SumOver(f, S) ==
    IF S = {} THEN 0
    ELSE LET j == CHOOSE x \in S : TRUE IN f[j] + SumOver(f, S \ {j})

\* a handler is about to list the events of the listing specification
ListedCalls(p) ==
    list_events(fromisoformat(p.start_date), fromisoformat(p.end_date), p.calendar_name)

(***************************************************************************)
(* C15.  Whatever the order in which the store returns a non-empty set of  *)
(* events, the output of list_events renders each event exactly once,      *)
(* under the line of the date of its start time, each date once, and the   *)
(* events appear in chronological order of their dates and, within a date, *)
(* in ascending order of their start times.                                *)
(***************************************************************************)
C15_Rendered(listed, lines) ==
    LET rendered == LinesOf(lines, "event")
    IN  /\ Cardinality(rendered) = Len(listed)
        /\ \A i \in 1..Len(listed) :
               Cardinality({j \in rendered : lines[j].id = listed[i].identifier}) = 1
        /\ \A j \in rendered :
               /\ HeaderOf(lines, j) # 0
               /\ lines[HeaderOf(lines, j)].date =
                      strftime_date(EventOf(listed, lines[j]).start_time)
        /\ \A g, h \in LinesOf(lines, "date") : g # h => lines[g].date # lines[h].date
        /\ \A j, k \in rendered :
               j < k =>
                   LET a == EventOf(listed, lines[j]).start_time
                       b == EventOf(listed, lines[k]).start_time
                   IN  /\ a \div MinutesPerDay <= b \div MinutesPerDay
                       /\ a \div MinutesPerDay = b \div MinutesPerDay => a <= b

C15_ListingOrder ==
    ListEventsReady =>
        \A p \in ListEventsCalls :
            LET out == ListedCalls(p)
            IN  (IsNone(out.raised) /\ out.ret # {}) =>
                    \A listed \in Orders(out.ret) :
                        C15_Rendered(listed, format_events(listed))

\* list_events has listed, with no calendar filter, a store with two events
\* of one date that start at different times and an event of another month
C15_Witness ==
    /\ tool = "list_events"
    /\ pc = "idle"
    /\ result.msg = "Total time"
    /\ HasOp(ops, "query")
    /\ ~HasOp(ops, "calendars")
    /\ \E a, b, c \in DOMAIN events :
           /\ IsSome(events[a]) /\ IsSome(events[b]) /\ IsSome(events[c])
           /\ Val(events[a]).startDate = 1380
           /\ Val(events[b]).startDate = 600
           /\ Val(events[c]).startDate = 37920

(***************************************************************************)
(* C16.  In the output of list_events the daily total of each date is the  *)
(* sum of end - start, in minutes, of exactly the events listed under that *)
(* date, and the grand total is the sum of the daily totals, which is the  *)
(* sum of end - start of all the events returned.                          *)
(***************************************************************************)
C16_Totalled(listed, lines) ==
    LET rendered == LinesOf(lines, "event")
        dailies == LinesOf(lines, "daily")
        totals == LinesOf(lines, "total")
        minutes == [j \in 1..Len(lines) |->
                       IF j \in rendered
                       THEN EventOf(listed, lines[j]).end_time
                                - EventOf(listed, lines[j]).start_time
                       ELSE lines[j].minutes]
    IN  /\ \A d \in dailies :
               /\ HeaderOf(lines, d) # 0
               /\ lines[d].minutes =
                      SumOver(minutes, {j \in rendered :
                                           HeaderOf(lines, j) = HeaderOf(lines, d)})
        /\ \A h \in LinesOf(lines, "date") :
               Cardinality({d \in dailies : HeaderOf(lines, d) = h}) = 1
        /\ totals = {Len(lines)}
        /\ lines[Len(lines)].minutes = SumOver(minutes, dailies)
        /\ lines[Len(lines)].minutes = SumOver(minutes, rendered)

C16_ListingTotals ==
    ListEventsReady =>
        \A p \in ListEventsCalls :
            LET out == ListedCalls(p)
            IN  (IsNone(out.raised) /\ out.ret # {}) =>
                    \A listed \in Orders(out.ret) :
                        C16_Totalled(listed, format_events(listed))

\* list_events has listed, with no calendar filter, a store with two events
\* of different durations on one date
C16_Witness ==
    /\ tool = "list_events"
    /\ pc = "idle"
    /\ result.msg = "Total time"
    /\ HasOp(ops, "query")
    /\ ~HasOp(ops, "calendars")
    /\ \E a, b \in DOMAIN events :
           /\ IsSome(events[a]) /\ IsSome(events[b])
           /\ Val(events[a]).startDate = 600 /\ Val(events[b]).startDate = 600
           /\ Val(events[a]).endDate = 660 /\ Val(events[b]).endDate = 690

(***************************************************************************)
(* C17.  When the store answers a save of create_event or update_event, or *)
(* the remove of delete_event, with a failure, the method raises an        *)
(* Exception that carries the store's diagnostic, returns nothing, leaves  *)
(* the store's events as they were, and has issued exactly one save or     *)
(* remove; no invocation ever issues more than one.                        *)
(***************************************************************************)
C17_FailedOnce(out, name, nothing) ==
    HasOp(out.ops, name) =>
        /\ out.raised = Some(Exc("Exception", StoreError))
        /\ out.ret = nothing
        /\ out.events = events
        /\ CountOp(out.ops, name) = 1

C17_StoreFailureRaises ==
    /\ CountOp(ops, "save") + CountOp(ops, "remove") <= 1
    /\ CreateReady =>
           \A p \in CreateCalls :
               C17_FailedOnce(create_event(CreateEventRequest(p), FALSE), "save", None)
    /\ UpdateReady =>
           \A p \in UpdateCalls :
               C17_FailedOnce(update_event(Val(p.event_id), UpdateEventRequest(p), FALSE),
                              "save", None)
    /\ (manager /\ pc = "idle") =>
           \A id \in DOMAIN events :
               C17_FailedOnce(delete_event(id, FALSE), "remove", FALSE)

\* update_event_handler has reported the failure of its one save
C17_Witness ==
    /\ tool = "update_event"
    /\ pc = "idle"
    /\ result = Text("Error updating event", "Exception")
    /\ CountOp(ops, "save") = 1
    /\ IsSome(events["e1"])

(***************************************************************************)
(* C18.  update_event_handler and delete_event_handler called with params  *)
(* that have no event_id return "Error: Missing required parameter         *)
(* (event_id)" and issue no lookup, save or remove.  As stated this fails  *)
(* when get_calendar_manager raises: the handlers call it before they look *)
(* at the params and then return the error of the access request.          *)
(***************************************************************************)
MissingEventId == Text("Error: Missing required parameter (event_id)", "")

C18_NoEventId(S) == {p \in S : IsNone(p.event_id)}

C18_MissingEventId ==
    /\ (pc = "body" /\ tool = "update_event") =>
           \A p \in C18_NoEventId(UpdateParams), ok \in BOOLEAN :
               LET out == update_event_handler(p, ok)
               IN  out.result = MissingEventId /\ out.ops = <<>>
    /\ (pc = "body" /\ tool = "delete_event") =>
           \A p \in C18_NoEventId(DeleteParams), ok \in BOOLEAN :
               LET out == delete_event_handler(p, ok)
               IN  out.result = MissingEventId /\ out.ops = <<>>

(***************************************************************************)
(* C18, amended.  Called with params that have no event_id, the two        *)
(* handlers return "Error: Missing required parameter (event_id)" when     *)
(* get_calendar_manager returns a manager, and the error text of the       *)
(* failed access request when it raises; in both cases no lookup, save or  *)
(* remove is issued and the store's events stay as they were.              *)
(***************************************************************************)
C18_Expected(prefix, out) ==
    /\ out.result = IF mgr_error THEN Text(prefix, "ValueError") ELSE MissingEventId
    /\ out.ops = <<>>
    /\ out.events = events

C18_MissingEventIdWithManager ==
    /\ (pc = "body" /\ tool = "update_event") =>
           \A p \in C18_NoEventId(UpdateParams), ok \in BOOLEAN :
               C18_Expected("Error updating event", update_event_handler(p, ok))
    /\ (pc = "body" /\ tool = "delete_event") =>
           \A p \in C18_NoEventId(DeleteParams), ok \in BOOLEAN :
               C18_Expected("Error deleting event", delete_event_handler(p, ok))

\* delete_event_handler, holding a manager, has answered params without
\* event_id
C18_Witness ==
    /\ tool = "delete_event"
    /\ pc = "idle"
    /\ manager
    /\ result = MissingEventId
    /\ ops = <<>>

(***************************************************************************)
(* C19.  When the store runs the completion of an access request once,     *)
(* whether inside the call of the request, before the caller waits, or     *)
(* after the caller has started to wait, the release is kept until the     *)
(* caller takes it, the wait returns, and _request_access returns the flag *)
(* the completion was given: the construction succeeds exactly when that   *)
(* flag is TRUE.                                                           *)
(***************************************************************************)
C19_WaitReturns ==
    /\ []((completion = "done" /\ pc \in {"in_request", "acquire"}) => semaphore = 1)
    /\ (completion = "pending") ~> (completion = "done" /\ pc = "body")
    /\ \A granted \in BOOLEAN :
           (completion = "done" /\ pc \in {"in_request", "acquire"}
                /\ access_granted = granted)
               ~> (pc = "body" /\ semaphore = 0 /\ manager = granted
                       /\ mgr_error = ~granted)

\* the completion has run inside the call of the request, with granted =
\* FALSE, before the caller has started to wait
C19_Witness ==
    /\ pc = "in_request"
    /\ completion = "done"
    /\ semaphore = 1
    /\ ~access_granted

(***************************************************************************)
(* C20.  When update_event raises NoSuchCalendarException it has issued no *)
(* save, and the event is afterwards as it was before the call: a          *)
(* following find_event_by_id returns it unchanged.  The code sets the     *)
(* other fields of the request on the store's native event before it looks *)
(* up the calendar, so the object the store hands to a following lookup    *)
(* may carry them.                                                         *)
(***************************************************************************)
C20_UnknownCalendarLeavesEvent ==
    [][(UpdateReady /\ result'.msg = "Error updating event"
            /\ result'.detail = "NoSuchCalendarException") =>
          /\ ~HasOp(ops', "save")
          /\ events' = events
          /\ \A id \in DOMAIN events :
                 find_event_by_id(id).ret' = find_event_by_id(id).ret]_vars

(***************************************************************************)
(* C21.  Once an access request has completed with granted = TRUE the      *)
(* manager is cached when that invocation goes on, and every later         *)
(* invocation reuses it: it starts no construction and issues no access    *)
(* request, so no request is in flight after a grant and the only request  *)
(* an invocation that holds the manager can have issued is the granted     *)
(* one.                                                                    *)
(***************************************************************************)
C21_ManagerMemoized ==
    /\ (granted_ever /\ pc \in {"idle", "body"}) => manager
    /\ granted_ever => pc # "construct" /\ completion # "pending"
    /\ manager => granted_ever
    /\ (manager /\ HasOp(ops, "requestAccess")) =>
           /\ CountOp(ops, "requestAccess") = 1
           /\ completion = "done"
           /\ access_granted

\* a later invocation is served with the cached manager and without a
\* request of its own
C21_Witness ==
    /\ manager
    /\ granted_ever
    /\ pc = "body"
    /\ tool = "list_events"
    /\ ~HasOp(ops, "requestAccess")

====
